---- MODULE Spec2Model ----
(***************************************************************************)
(* jupyterthemes/jtplot.py: the matplotlib styling pipeline.               *)
(*                                                                         *)
(* Representation.  Python floats are kept exact as fixed-point integers:  *)
(* the base tables and the scale factors are in tenths (1.4 is 14, .8 is   *)
(* 8), so every product written into a configuration mapping is in         *)
(* hundredths (1.4 * .8 is 112, the tick size 6 is 600).  An RGB component *)
(* is in units of 1/1020, so that both n/255 (a hex byte) and .5, .75 (the *)
(* literals of reset) are integers.  Strings are TLA+ strings; Len, SubSeq *)
(* and \o act on them as on Python strings.                                *)
(*                                                                         *)
(* rcParams holds the entries of mpl.rcParams that have been written over  *)
(* mpl.rcParamsDefault: a key outside its domain has the host library's    *)
(* factory value.                                                          *)
(***************************************************************************)
EXTENDS Integers, Sequences, FiniteSets, TLC

VARIABLES
    base_context,   \* module-level dict, jtplot.py:35
    base_font,      \* module-level dict, jtplot.py:54
    rcParams,       \* mpl.rcParams, as the overlay over mpl.rcParamsDefault
    colors,         \* mpl.colors.colorConverter.colors, the codes b g r m y c k
    cache,          \* mpl.colors.colorConverter.cache, the entries jtplot wrote
    styles,         \* the files of styles_dir: file name -> its lines
    marker,         \* theme_name_file: whether it exists, and its lines
    written,        \* the rcdict last handed to mpl.rcParams.update by set_style
    ret             \* the last call: its operation, arguments, outcome and value

vars == <<base_context, base_font, rcParams, colors, cache, styles, marker, written, ret>>

\* ------------------------------------------------------------------ bounds

\* fscale ranges over 0.5, 1.0, ..., MaxFscale * 0.5
MaxFscale == 2
\* a theme file of the parser specification holds at most MaxExtraLines lines
\* that carry no marker
MaxExtraLines == 1

\* ------------------------------------------------------- Python primitives

None == "<None>"

Min(S) == CHOOSE x \in S : \A y \in S : x <= y
Max(S) == CHOOSE x \in S : \A y \in S : x >= y

\* sub in s
Contains(s, sub) ==
    \E i \in 1..(Len(s) - Len(sub) + 1) : SubSeq(s, i, i + Len(sub) - 1) = sub

IsSpace(c) == c \in {" ", "\n", "\t", "\r"}

\* s.strip()
strip(s) ==
    LET idx == {i \in 1..Len(s) : ~IsSpace(SubSeq(s, i, i))}
    IN  IF idx = {} THEN ""
        ELSE SubSeq(s, CHOOSE i \in idx : \A j \in 1..(i - 1) : j \notin idx,
                       CHOOSE i \in idx : \A j \in (i + 1)..Len(s) : j \notin idx)

\* s.split(sep)[-1]
SplitLast(s, sep) ==
    LET idx == {i \in 1..Len(s) : SubSeq(s, i, i) = sep}
    IN  IF idx = {} THEN s ELSE SubSeq(s, Max(idx) + 1, Len(s))

\* s.split(sep)[0]
SplitFirst(s, sep) ==
    LET idx == {i \in 1..Len(s) : SubSeq(s, i, i) = sep}
    IN  IF idx = {} THEN s ELSE SubSeq(s, 1, Min(idx) - 1)

\* s[-7:]
Last7(s) == IF Len(s) <= 7 THEN s ELSE SubSeq(s, Len(s) - 6, Len(s))

\* d1.update(d2), as the value d1 then has
update(d1, d2) ==
    [k \in (DOMAIN d1) \cup (DOMAIN d2) |-> IF k \in DOMAIN d2 THEN d2[k] ELSE d1[k]]

\* l.index(c): the first position of c
index(l, c) == Min({i \in 1..Len(l) : l[i] = c})

Range(l) == {l[i] : i \in 1..Len(l)}

RECURSIVE Perms(_)
\* every order list(set(...)) can give to the elements of S
Perms(S) ==
    IF S = {} THEN {<<>>}
    ELSE UNION {{<<x>> \o p : p \in Perms(S \ {x})} : x \in S}

\* ------------------------------------------------------------ module tables

base_style ==
    ("axes.axisbelow" :> TRUE) @@ ("figure.autolayout" :> TRUE) @@
    ("grid.linestyle" :> "-") @@ ("lines.solid_capstyle" :> "round") @@
    ("legend.frameon" :> FALSE) @@ ("legend.numpoints" :> 1) @@
    ("legend.scatterpoints" :> 1) @@ ("font.family" :> "sans-serif") @@
    ("font.sans-serif" :> <<"Helvetica", "Arial", "Bitstream Vera Sans", "sans-serif">>)

\* in tenths
base_context_literal ==
    ("axes.linewidth" :> 14) @@ ("grid.linewidth" :> 14) @@
    ("lines.linewidth" :> 15) @@ ("patch.linewidth" :> 2) @@
    ("lines.markersize" :> 70) @@ ("lines.markeredgewidth" :> 0) @@
    ("xtick.major.width" :> 10) @@ ("ytick.major.width" :> 10) @@
    ("xtick.minor.width" :> 5) @@ ("ytick.minor.width" :> 5) @@
    ("xtick.major.pad" :> 70) @@ ("ytick.major.pad" :> 70) @@
    ("xtick.major.size" :> 0) @@ ("ytick.major.size" :> 0) @@
    ("xtick.minor.size" :> 0) @@ ("ytick.minor.size" :> 0)

\* in tenths
base_font_literal ==
    ("font.size" :> 110) @@ ("axes.labelsize" :> 120) @@
    ("axes.titlesize" :> 120) @@ ("xtick.labelsize" :> 105) @@
    ("ytick.labelsize" :> 105) @@ ("legend.fontsize" :> 105)

\* dict(paper=.8, notebook=1, talk=1.3, poster=1.6), in tenths
scaling_table ==
    ("paper" :> 8) @@ ("notebook" :> 10) @@ ("talk" :> 13) @@ ("poster" :> 16)

\* ------------------------------------------------------------- set_context

set_context_fontscaled(context, fscale) ==
    LET scaling == scaling_table[context]
        context_dict == [k \in DOMAIN base_context |-> base_context[k] * scaling]
        with_fig == update(context_dict, "figure.figsize" :> <<55 * scaling, 45 * scaling>>)
        font_dict == [k \in DOMAIN base_font |-> base_font[k] * scaling]
    IN  update(with_fig, font_dict)

\* the mapping set_context returns, for a context of the table
set_context(context, fscale) ==
    LET scaling == scaling_table[context]
        context_dict == [k \in DOMAIN base_context |-> base_context[k] * scaling]
        with_fig == update(context_dict, "figure.figsize" :> <<55 * scaling, 45 * scaling>>)
        font_dict == [k \in DOMAIN base_font |-> base_font[k] * fscale]
    IN  update(with_fig, font_dict)

\* ---------------------------------------------------------- get_theme_style

get_color_list ==
    <<"#3572C6", "#83a83b", "#c44e52", "#8172b2", "#ff914d", "#77BEDB", "#222222",
      "#4168B7", "#27ae60", "#e74c3c", "#8E44AD", "#ff711a", "#3498db", "#6C7A89">>

get_default_jtstyle_shared ==
    IF ret.op = "get_theme_style" /\ ret.status = "ok"
    THEN ret.value
    ELSE [styleMap |-> ("axisFace" :> "white") @@ ("figureFace" :> "white") @@
                       ("textColor" :> ".15") @@ ("edgeColor" :> ".8") @@
                       ("gridColor" :> ".8"),
          clist |-> get_color_list]

\* a fresh colour map and a fresh colour list on every call
get_default_jtstyle ==
    [styleMap |-> ("axisFace" :> "white") @@ ("figureFace" :> "white") @@
                  ("textColor" :> ".15") @@ ("edgeColor" :> ".8") @@
                  ("gridColor" :> ".8"),
     clist |-> get_color_list]

syntaxVars_literal ==
    <<"@cm-atom", "@cm-number", "@cm-property", "@cm-attribute", "@cm-keyword",
      "@cm-string", "@cm-meta">>

get_hex_code_keeps_semicolon(line) == Last7(SplitLast(line, ":"))

\* lambda line: line.split(':')[-1].split(';')[0][-7:]
get_hex_code(line) == Last7(SplitFirst(SplitLast(line, ":"), ";"))

\* for k, v in styleMap.items(): if k in line.strip(): styleMap[k] = get_hex_code(line)
ScanSlots(styleMap, line) ==
    LET stripped == strip(line)
        hex == get_hex_code(line)
    IN  [k \in DOMAIN styleMap |-> IF Contains(stripped, k) THEN hex ELSE styleMap[k]]

\* syntaxVars[syntaxVars.index(c)] = get_hex_code(line), if c in line.strip()
ReplaceSyntax(syntaxVars, i, stripped, hex) ==
    IF Contains(stripped, syntaxVars[i])
    THEN [syntaxVars EXCEPT ![index(syntaxVars, syntaxVars[i])] = hex]
    ELSE syntaxVars

\* for c in syntaxVars: ...   the list is changed in place while it is
\* iterated: position i is read when the loop reaches it
ScanSyntax(syntaxVars, line) ==
    LET stripped == strip(line)
        hex == get_hex_code(line)
        after[i \in 0..Len(syntaxVars)] ==
            IF i = 0 THEN syntaxVars ELSE ReplaceSyntax(after[i - 1], i, stripped, hex)
    IN  after[Len(syntaxVars)]

\* the body of: for line in f
ScanLine(scanned, line) ==
    [styleMap |-> ScanSlots(scanned.styleMap, line),
     syntaxVars |-> ScanSyntax(scanned.syntaxVars, line)]

\* for line in f: ...   the colour map and the syntax list after the last line
ScanFile(styleMap, syntaxVars, lines) ==
    LET after[n \in 0..Len(lines)] ==
            IF n = 0 THEN [styleMap |-> styleMap, syntaxVars |-> syntaxVars]
            ELSE ScanLine(after[n - 1], lines[n])
    IN  after[Len(lines)]

\* ------------------------------------------------------------- infer_theme

\* f.readlines()[0] of an empty file raises IndexError
infer_theme_raises == marker.exists /\ Len(marker.lines) = 0

infer_theme == IF marker.exists THEN marker.lines[1] ELSE "default"

\* ------------------------------------------------------------------ colours

HexDigits ==
    ("0" :> 0) @@ ("1" :> 1) @@ ("2" :> 2) @@ ("3" :> 3) @@ ("4" :> 4) @@
    ("5" :> 5) @@ ("6" :> 6) @@ ("7" :> 7) @@ ("8" :> 8) @@ ("9" :> 9) @@
    ("a" :> 10) @@ ("b" :> 11) @@ ("c" :> 12) @@ ("d" :> 13) @@ ("e" :> 14) @@
    ("f" :> 15) @@ ("A" :> 10) @@ ("B" :> 11) @@ ("C" :> 12) @@ ("D" :> 13) @@
    ("E" :> 14) @@ ("F" :> 15)

HexDigit(c) == HexDigits[c]

HexByte(s, i) == 16 * HexDigit(SubSeq(s, i, i)) + HexDigit(SubSeq(s, i + 1, i + 1))

\* colorConverter.to_rgb of a '#RRGGBB' string: each byte over 255
to_rgb(color) == <<4 * HexByte(color, 2), 4 * HexByte(color, 4), 4 * HexByte(color, 6)>>

\* what rcParams' validation of 'axes.prop_cycle' can refuse: an entry of the
\* colour list that is a marker name and no colour
IsColor(c) == Len(c) > 0 /\ SubSeq(c, 1, 1) # "@"

codes == <<"b", "g", "r", "m", "y", "c", "k">>

\* the host library's own short-code colours (matplotlib's BASE_COLORS)
factory_colors ==
    ("b" :> <<0, 0, 1020>>) @@ ("g" :> <<0, 510, 0>>) @@ ("r" :> <<1020, 0, 0>>) @@
    ("c" :> <<0, 765, 765>>) @@ ("m" :> <<765, 0, 765>>) @@ ("y" :> <<765, 765, 0>>) @@
    ("k" :> <<0, 0, 0>>)

\* the colors list of reset(), zipped with "bgrmyck"
reset_colors ==
    <<<<0, 0, 1020>>, <<0, 510, 0>>, <<1020, 0, 0>>, <<765, 765, 0>>,
      <<765, 765, 0>>, <<0, 765, 765>>, <<0, 0, 0>>>>

\* for code, color in zip("bgrmyck", l): table[code] = rgb
zip_codes(table, l) ==
    [k \in (DOMAIN table) \cup Range(codes) |->
        IF k \in Range(codes) THEN l[index(codes, k)] ELSE table[k]]

\* ---------------------------------------------------------------- set_style

style_dict_spines_ignored(styleMap, grid, spines) ==
    ("figure.edgecolor" :> styleMap["figureFace"]) @@
    ("figure.facecolor" :> styleMap["figureFace"]) @@
    ("axes.facecolor" :> styleMap["axisFace"]) @@
    ("axes.edgecolor" :> styleMap["edgeColor"]) @@
    ("axes.labelcolor" :> styleMap["textColor"]) @@
    ("axes.grid" :> grid) @@
    ("grid.color" :> styleMap["gridColor"]) @@
    ("text.color" :> styleMap["textColor"]) @@
    ("xtick.color" :> styleMap["textColor"]) @@
    ("ytick.color" :> styleMap["textColor"]) @@
    ("patch.edgecolor" :> styleMap["axisFace"]) @@
    ("patch.facecolor" :> styleMap["gridColor"]) @@
    ("savefig.facecolor" :> styleMap["figureFace"]) @@
    ("savefig.edgecolor" :> styleMap["figureFace"])

style_dict(styleMap, grid, spines) ==
    LET edgeColor == IF ~spines THEN styleMap["gridColor"] ELSE styleMap["edgeColor"]
    IN  ("figure.edgecolor" :> styleMap["figureFace"]) @@
        ("figure.facecolor" :> styleMap["figureFace"]) @@
        ("axes.facecolor" :> styleMap["axisFace"]) @@
        ("axes.edgecolor" :> edgeColor) @@
        ("axes.labelcolor" :> styleMap["textColor"]) @@
        ("axes.grid" :> grid) @@
        ("grid.color" :> styleMap["gridColor"]) @@
        ("text.color" :> styleMap["textColor"]) @@
        ("xtick.color" :> styleMap["textColor"]) @@
        ("ytick.color" :> styleMap["textColor"]) @@
        ("patch.edgecolor" :> styleMap["axisFace"]) @@
        ("patch.facecolor" :> styleMap["gridColor"]) @@
        ("savefig.facecolor" :> styleMap["figureFace"]) @@
        ("savefig.edgecolor" :> styleMap["figureFace"])

show_ticks_scaled(rcdict, ticks, context) ==
    IF ticks
    THEN update(rcdict, ("xtick.major.size" :> 60 * scaling_table[context]) @@
                        ("ytick.major.size" :> 60 * scaling_table[context]) @@
                        ("xtick.minor.size" :> 30 * scaling_table[context]) @@
                        ("ytick.minor.size" :> 30 * scaling_table[context]))
    ELSE rcdict

\* if ticks: rcdict.update({... 6, 6, 3, 3})
show_ticks(rcdict, ticks, context) ==
    IF ticks
    THEN update(rcdict, ("xtick.major.size" :> 600) @@ ("ytick.major.size" :> 600) @@
                        ("xtick.minor.size" :> 300) @@ ("ytick.minor.size" :> 300))
    ELSE rcdict

\* ------------------------------------------------------------------ results

Returned(op, args, value) ==
    [op |-> op, status |-> "ok", error |-> "", args |-> args, value |-> value]

Raised(op, error) ==
    [op |-> op, status |-> "raise", error |-> error, args |-> <<>>, value |-> <<>>]

\* ------------------------------------------------------------ the environment

Contexts == {"paper", "notebook", "talk", "poster", "slides"}

\* in tenths
Fscales == {5 * n : n \in 1..MaxFscale}

Themes == {None, "default", "onedork", "grade3", "nosuch"}

\* a theme file with all 12 markers; its 7 syntax colours are one colour
onedork_less ==
    <<"// onedork\n",
      "@axisFace: #373e4b;\n",
      "@figureFace: #282c34;\n",
      "@textColor: #899ab8;\n",
      "@edgeColor: #4f5869;\n",
      "@gridColor: #5c6370;\n",
      "  @cm-atom: #d19a66;\n",
      "  @cm-number: #d19a66;\n",
      "  @cm-property: #d19a66;\n",
      "  @cm-attribute: #d19a66;\n",
      "  @cm-keyword: #d19a66;\n",
      "  @cm-string: #d19a66;\n",
      "  @cm-meta: #d19a66;\n">>

\* a theme file without the edgeColor slot and without the @cm-meta marker
grade3_less ==
    <<"@axisFace: #ffffff;\n",
      "@figureFace: #fafafa;\n",
      "@textColor: #3b3b3b;\n",
      "@gridColor: #e0e0e0;\n",
      "@cm-atom: #aa22ff;\n",
      "@cm-number: #aa22ff;\n",
      "@cm-property: #aa22ff;\n",
      "@cm-attribute: #aa22ff;\n",
      "@cm-keyword: #aa22ff;\n",
      "@cm-string: #aa22ff;\n">>

MainStyles == ("onedork.less" :> onedork_less) @@ ("grade3.less" :> grade3_less)

\* theme_name_file: absent, empty, one line without a newline, two lines
MarkerFiles ==
    {[exists |-> FALSE, lines |-> <<>>],
     [exists |-> TRUE, lines |-> <<>>],
     [exists |-> TRUE, lines |-> <<"onedork">>],
     [exists |-> TRUE, lines |-> <<"grade3\n", "onedork\n">>]}

\* the marker files of the pipeline specification: empty, and one line
PipelineMarkerFiles ==
    {[exists |-> TRUE, lines |-> <<>>],
     [exists |-> TRUE, lines |-> <<"onedork">>]}

\* figsize arguments: x and y in tenths, aspect in tenths
FigsizeArgs == {<<<<55, 45>>, 10>>, <<<<100, 50>>, 20>>}

\* ---------------------------------------------- theme files of the parser runs

SlotKeys == <<"axisFace", "figureFace", "textColor", "edgeColor", "gridColor">>

\* 12 distinct '#RRGGBB' values
Palette ==
    <<"#373e4b", "#282c34", "#899ab8", "#4f5869", "#5c6370", "#d19a66",
      "#e5c07b", "#61afef", "#98c379", "#c678dd", "#56b6c2", "#e06c75">>

\* the i-th marker: the 5 slot keys, then the 7 syntax markers
MarkerText(i) == IF i <= 5 THEN "@" \o SlotKeys[i] ELSE syntaxVars_literal[i - 5]

\* the line of marker i with value number v
MarkerLine(i, v) == MarkerText(i) \o ": " \o Palette[v] \o ";\n"

\* a line with no marker and no colour
ExtraLine(j) == IF j % 2 = 1 THEN "// theme colours\n" ELSE "\n"

Reverse(l) == [i \in 1..Len(l) |-> l[Len(l) + 1 - i]]

\* all 12 markers, marker i with value ((i + rot) mod 12) + 1, after e lines
\* without a marker
FullFile(rot, reversed, e) ==
    LET body == [i \in 1..12 |-> MarkerLine(i, ((i + rot) % 12) + 1)]
    IN  [j \in 1..e |-> ExtraLine(j)] \o (IF reversed THEN Reverse(body) ELSE body)

FullFiles ==
    {FullFile(rot, reversed, e) :
        rot \in {0, 1, 5}, reversed \in BOOLEAN, e \in 0..MaxExtraLines}

\* the markers outside omitted, in order, marker i with value i
PartialFile(omitted) ==
    LET kept == {i \in 1..12 : i \notin omitted}
        nth[n \in 1..Cardinality(kept)] ==
            CHOOSE i \in kept : Cardinality({j \in kept : j < i}) = n - 1
    IN  [n \in 1..Cardinality(kept) |-> MarkerLine(nth[n], nth[n])]

PartialFiles ==
    {PartialFile(omitted) : omitted \in {{i} : i \in 1..12} \cup {1..5, 6..12, 1..12}}

\* all 12 markers, the 7 syntax markers with 3 colours between them
SharedColourFile == [i \in 1..12 |-> MarkerLine(i, IF i <= 5 THEN i ELSE 6 + (i % 3))]

ParserFiles == FullFiles \cup PartialFiles \cup {SharedColourFile}

KnownFiles == {onedork_less, grade3_less}

\* ScanFile from the literals of get_theme_style, on the theme files of the
\* environment: evaluated once
ScanMemo ==
    [lines \in KnownFiles |->
        ScanFile(get_default_jtstyle.styleMap, syntaxVars_literal, lines)]

\* with open(themeFile) as f: for line in f: ...
Scanned(styleMap, syntaxVars, lines) ==
    IF /\ lines \in KnownFiles
       /\ styleMap = get_default_jtstyle.styleMap
       /\ syntaxVars = syntaxVars_literal
    THEN ScanMemo[lines]
    ELSE ScanFile(styleMap, syntaxVars, lines)

\* os.path.join(styles_dir, theme + '.less'), relative to styles_dir
themeFile(theme) == theme \o ".less"

\* whether get_theme_style(theme) raises (open() of a file that does not exist)
get_theme_style_raises(theme) ==
    theme # "default" /\ themeFile(theme) \notin DOMAIN styles

\* the values get_theme_style(theme) can return: one for each order that
\* list(set(syntaxVars)) can have
get_theme_style(theme) ==
    LET d == get_default_jtstyle
    IN  IF theme = "default" THEN {d}
        ELSE LET s == Scanned(d.styleMap, syntaxVars_literal, styles[themeFile(theme)])
             IN  {[styleMap |-> s.styleMap, clist |-> d.clist \o p] :
                     p \in Perms(Range(s.syntaxVars))}

\* ------------------------------------------------------------------ actions

Factory ==
    /\ base_context = base_context_literal
    /\ base_font = base_font_literal
    /\ rcParams = <<>>
    /\ colors = factory_colors
    /\ cache = <<>>
    /\ written = <<>>
    /\ ret = [op |-> "none", status |-> "ok", error |-> "", args |-> <<>>, value |-> <<>>]

Init ==
    /\ Factory
    /\ styles = MainStyles
    /\ marker \in PipelineMarkerFiles

InitCalls ==
    /\ Factory
    /\ styles = MainStyles
    /\ marker \in MarkerFiles

Env == <<base_context, base_font, styles, marker>>

StyleFails_after_context_written(error) ==
    /\ ret' = Raised("style", error)
    /\ rcParams' = update(rcParams, set_context("notebook", 10))
    /\ UNCHANGED <<Env, colors, cache, written>>

\* an exception raised by set_context, infer_theme or get_theme_style leaves
\* style before set_style has written anything
StyleFails(error) ==
    /\ ret' = Raised("style", error)
    /\ UNCHANGED <<Env, rcParams, colors, cache, written>>

\* style(theme, context, grid, ticks, spines, fscale), with set_style
Style(theme, context, grid, ticks, spines, fscale) ==
    LET resolved == IF theme = None THEN infer_theme ELSE theme
        args == [theme |-> theme, resolved |-> resolved, context |-> context,
                 grid |-> grid, ticks |-> ticks, spines |-> spines, fscale |-> fscale]
    IN
    \/ \* set_context: the lookup in the scaling table fails
       /\ context \notin DOMAIN scaling_table
       /\ StyleFails("KeyError")
    \/ \* infer_theme: readlines()[0] of an empty marker file
       /\ context \in DOMAIN scaling_table
       /\ theme = None /\ infer_theme_raises
       /\ StyleFails("IndexError")
    \/ \* get_theme_style: the theme file does not exist
       /\ context \in DOMAIN scaling_table
       /\ ~(theme = None /\ infer_theme_raises)
       /\ get_theme_style_raises(resolved)
       /\ StyleFails("IOError")
    \/ /\ context \in DOMAIN scaling_table
       /\ ~(theme = None /\ infer_theme_raises)
       /\ ~get_theme_style_raises(resolved)
       /\ \E t \in get_theme_style(resolved) :
            /\ written' = update(show_ticks(set_context(context, fscale), ticks, context),
                                 style_dict(t.styleMap, grid, spines))
            /\ \/ \* the whole of set_style
                  /\ rcParams' = update(update(rcParams, written'),
                                        "axes.prop_cycle" :> t.clist)
                  /\ colors' = zip_codes(colors, [i \in 1..7 |-> to_rgb(t.clist[i])])
                  /\ cache' = zip_codes(cache, [i \in 1..7 |-> colors'[codes[i]]])
                  /\ ret' = Returned("style", args, t)
               \/ \* rcParams refuses a colour cycle with an entry that is no
                  \* colour, after rcParams.update(rcdict)
                  /\ \E i \in 1..Len(t.clist) : ~IsColor(t.clist[i])
                  /\ rcParams' = update(rcParams, written')
                  /\ ret' = Raised("style", "ValueError")
                  /\ UNCHANGED <<colors, cache>>
            /\ UNCHANGED Env

\* set_context(context, fscale), called on its own
SetContext(context, fscale) ==
    /\ IF context \in DOMAIN scaling_table
       THEN ret' = Returned("set_context", [context |-> context, fscale |-> fscale],
                            set_context(context, fscale))
       ELSE ret' = Raised("set_context", "KeyError")
    /\ UNCHANGED <<Env, rcParams, colors, cache, written>>

\* get_theme_style(theme), called on its own
GetThemeStyle(theme) ==
    /\ IF get_theme_style_raises(theme)
       THEN ret' = Raised("get_theme_style", "IOError")
       ELSE \E t \in get_theme_style(theme) :
                ret' = Returned("get_theme_style", [theme |-> theme], t)
    /\ UNCHANGED <<Env, rcParams, colors, cache, written>>

\* infer_theme(), called on its own
InferTheme ==
    /\ IF infer_theme_raises
       THEN ret' = Raised("infer_theme", "IndexError")
       ELSE ret' = Returned("infer_theme", <<>>, infer_theme)
    /\ UNCHANGED <<Env, rcParams, colors, cache, written>>

\* figsize(x, y, aspect)
Figsize(x, y, aspect) ==
    /\ rcParams' = update(rcParams, "figure.figsize" :> <<x * aspect, y * 10>>)
    /\ ret' = Returned("figsize", [x |-> x, y |-> y, aspect |-> aspect], <<>>)
    /\ UNCHANGED <<Env, colors, cache, written>>

\* reset()
Reset ==
    /\ colors' = zip_codes(colors, reset_colors)
    /\ cache' = zip_codes(cache, reset_colors)
    /\ rcParams' = ("figure.facecolor" :> "white") @@ ("axes.facecolor" :> "white")
    /\ ret' = Returned("reset", <<>>, <<>>)
    /\ UNCHANGED <<Env, written>>

Next ==
    \/ \E theme \in Themes, context \in Contexts, grid \in BOOLEAN,
          ticks \in BOOLEAN, spines \in BOOLEAN :
            Style(theme, context, grid, ticks, spines, 10)
    \/ \E a \in FigsizeArgs : Figsize(a[1][1], a[1][2], a[2])
    \/ Reset

\* the styling pipeline: style with every theme, context and toggle (fscale at
\* its default, 1), figsize and reset
Spec == Init /\ [][Next]_vars

\* style(theme=..., context=..., fscale=...), the toggles at their defaults
StyleDefaults(theme, context, fscale) == Style(theme, context, TRUE, FALSE, TRUE, fscale)

NextCalls ==
    \/ \E theme \in Themes, context \in {"notebook", "slides"}, fscale \in Fscales :
            StyleDefaults(theme, context, fscale)
    \/ \E context \in Contexts, fscale \in Fscales : SetContext(context, fscale)
    \/ \E theme \in Themes \ {None} : GetThemeStyle(theme)
    \/ InferTheme
    \/ Reset

\* the functions of the module called on their own, between style calls
SpecCalls == InitCalls /\ [][NextCalls]_vars

InitParser ==
    /\ Factory
    /\ \E f \in ParserFiles : styles = ("theme.less" :> f)
    /\ marker = [exists |-> FALSE, lines |-> <<>>]

\* one call of get_theme_style in a styles_dir that holds theme.less
ParseTheme(theme) == ret.op = "none" /\ GetThemeStyle(theme)

NextParser == \E theme \in {"default", "theme", "nosuch"} : ParseTheme(theme)

\* get_theme_style on its own, over the theme files of ParserFiles
SpecParser == InitParser /\ [][NextParser]_vars

\* ------------------------------------------------------------------- claims

StyleDone == ret.op = "style" /\ ret.status = "ok"

\* C1: the mapping a completed style call writes is the merge base_style, then
\* the scaled base_context, then the scaled base_font, then the theme style
\* overrides, then the tick overrides; in particular every key of base_style
\* is in the written mapping with its base_style value.
C1_WrittenMergesBaseStyle ==
    StyleDone =>
        /\ \A k \in DOMAIN base_style :
              k \in DOMAIN written /\ written[k] = base_style[k]
        /\ \A k \in DOMAIN base_font_literal :
              written[k] = base_font_literal[k] * ret.args.fscale
        /\ written["axes.grid"] = ret.args.grid

\* C2: after reset() each of the codes b g r m y c k has the RGB triple it had
\* before the first style call, and the figure and axes faces are white.
C2_ResetRestoresShortCodes ==
    ret.op = "reset" =>
        /\ \A code \in Range(codes) : colors[code] = factory_colors[code]
        /\ rcParams["figure.facecolor"] = "white"
        /\ rcParams["axes.facecolor"] = "white"

ExpectedScale(context) ==
    CASE context = "paper" -> 8
      [] context = "notebook" -> 10
      [] context = "talk" -> 13
      [] context = "poster" -> 16

\* C3: set_context(c, f) returns every base_context value times the scale of
\* c, the figure size (5.5, 4.5) times that scale and every base_font value
\* times f, whatever c is; the call changes neither base_context, base_font
\* nor the global configuration.
C3_SetContextScales ==
    [][(ret'.op = "set_context" /\ ret'.status = "ok") =>
        LET s == ExpectedScale(ret'.args.context)
            f == ret'.args.fscale
            v == ret'.value
        IN  /\ ret'.args.context \in {"paper", "notebook", "talk", "poster"}
            /\ DOMAIN v = DOMAIN base_context_literal \cup DOMAIN base_font_literal
                            \cup {"figure.figsize"}
            /\ \A k \in DOMAIN base_context_literal : v[k] = base_context_literal[k] * s
            /\ v["figure.figsize"] = <<55 * s, 45 * s>>
            /\ \A k \in DOMAIN base_font_literal : v[k] = base_font_literal[k] * f
            /\ base_context' = base_context_literal
            /\ base_font' = base_font_literal
            /\ UNCHANGED <<base_context, base_font, rcParams, colors, cache>>]_vars

\* set_context("talk", 0.5) has returned, after a style call wrote the
\* configuration
C3_Witness ==
    /\ ret.op = "set_context" /\ ret.status = "ok"
    /\ ret.args.context = "talk" /\ ret.args.fscale = 5
    /\ ret.value["axes.linewidth"] = 182
    /\ "axes.linewidth" \in DOMAIN rcParams

ParsedTheme ==
    ret.op = "get_theme_style" /\ ret.status = "ok" /\ ret.args.theme = "theme"

\* C4: for a theme file with all 12 markers, each on its own line with a
\* distinct '#RRGGBB' value (the lines in either order, after lines that hold
\* no marker), the colour map holds the file's 5 slot values, and the colour
\* list is the 14 base accent colours in their order followed by exactly the
\* 7 syntax colours of the file, in some order: 21 entries.
C4_FullThemeRoundTrip ==
    ParsedTheme =>
        \A rot \in {0, 1, 5}, reversed \in BOOLEAN, e \in 0..MaxExtraLines :
            styles["theme.less"] = FullFile(rot, reversed, e) =>
                /\ \A i \in 1..5 :
                      ret.value.styleMap[SlotKeys[i]] = Palette[((i + rot) % 12) + 1]
                /\ Len(ret.value.clist) = 21
                /\ SubSeq(ret.value.clist, 1, 14) = get_color_list
                /\ Range(SubSeq(ret.value.clist, 15, 21))
                     = {Palette[((i + rot) % 12) + 1] : i \in 6..12}

\* the file with the values rotated by 5, its lines reversed, has been parsed
C4_Witness ==
    /\ ParsedTheme
    /\ styles["theme.less"] = FullFile(5, TRUE, MaxExtraLines)
    /\ ret.value.styleMap["gridColor"] = "#56b6c2"
    /\ ret.value.clist[15] = "#373e4b"

TickSizes == {"xtick.major.size", "ytick.major.size", "xtick.minor.size", "ytick.minor.size"}

ExpectedSlots(theme) ==
    CASE theme = "default" -> [edgeColor |-> ".8", gridColor |-> ".8"]
      [] theme = "onedork" -> [edgeColor |-> "#4f5869", gridColor |-> "#5c6370"]
      [] theme = "grade3" -> [edgeColor |-> ".8", gridColor |-> "#e0e0e0"]

\* C6: after a completed style(..., spines=False) 'axes.edgecolor' equals
\* 'grid.color'; after style(..., spines=True) it is the theme's edgeColor; in
\* both cases 'grid.color' is the theme's gridColor and 'axes.grid' is the
\* grid argument.
C6_SpinesEdgeColor ==
    StyleDone =>
        LET slots == ExpectedSlots(ret.args.resolved)
        IN  /\ rcParams["grid.color"] = slots.gridColor
            /\ rcParams["axes.grid"] = ret.args.grid
            /\ rcParams["axes.edgecolor"] =
                 (IF ret.args.spines THEN slots.edgeColor ELSE slots.gridColor)
            /\ ~ret.args.spines => rcParams["axes.edgecolor"] = rcParams["grid.color"]

\* style(spines=False) has completed with the theme of the marker file
C6_Witness ==
    /\ StyleDone /\ ~ret.args.spines /\ ~ret.args.grid
    /\ ret.args.theme = None /\ ret.args.resolved = "onedork"
    /\ rcParams["axes.edgecolor"] = "#5c6370"

\* C7: infer_theme() returns 'default' when the marker file does not exist and
\* the first line of the marker file when it exists, whatever its content, and
\* raises no error.
C7_InferThemeNeverFails ==
    ret.op = "infer_theme" =>
        /\ ret.status = "ok"
        /\ ret.value = (IF marker.exists THEN marker.lines[1] ELSE "default")

BuiltinSlots ==
    ("axisFace" :> "white") @@ ("figureFace" :> "white") @@ ("textColor" :> ".15") @@
    ("edgeColor" :> ".8") @@ ("gridColor" :> ".8")

\* C8: after any sequence of get_theme_style and style calls, the default
\* theme is exactly the 5 built-in slot colours and the 14 accent colours:
\* nothing an earlier call wrote or appended shows in a later call.
C8_DefaultThemeIsFresh ==
    /\ (ret.op = "get_theme_style" /\ ret.status = "ok" /\ ret.args.theme = "default") =>
          /\ ret.value.styleMap = BuiltinSlots
          /\ Len(ret.value.clist) = 14
          /\ ret.value.clist = get_color_list
    /\ (StyleDone /\ ret.args.resolved = "default") =>
          /\ ret.value.styleMap = BuiltinSlots
          /\ ret.value.clist = get_color_list

\* get_theme_style('default') has returned after a style call with a theme
\* file installed a colour cycle longer than the 14 accent colours
C8_Witness ==
    /\ ret.op = "get_theme_style" /\ ret.status = "ok" /\ ret.args.theme = "default"
    /\ "axes.prop_cycle" \in DOMAIN rcParams
    /\ Len(rcParams["axes.prop_cycle"]) > 14

\* C9: every entry of the colour list of a theme file is one of the 14 base
\* accent colours or a value extracted from a line of the file, never a
\* marker name, and a slot whose key is in no line keeps its default.
C9_ListHoldsOnlyColours ==
    ParsedTheme =>
        LET lines == styles["theme.less"]
        IN  /\ \A i \in 1..Len(ret.value.clist) :
                  /\ \/ ret.value.clist[i] \in Range(get_color_list)
                     \/ \E n \in 1..Len(lines) : ret.value.clist[i] = get_hex_code(lines[n])
                  /\ ret.value.clist[i] \notin Range(syntaxVars_literal)
            /\ \A k \in DOMAIN BuiltinSlots :
                  (\A n \in 1..Len(lines) : ~Contains(lines[n], k)) =>
                      ret.value.styleMap[k] = BuiltinSlots[k]

\* C10: a style call that fails on an unknown context or on a missing theme
\* file leaves the configuration, the colour cycle and the short-code colours
\* as they were.
C10_FailedStyleWritesNothing ==
    [][(ret'.op = "style" /\ ret'.status = "raise" /\ ret'.error \in {"KeyError", "IOError"})
        => UNCHANGED <<rcParams, colors, cache>>]_vars

\* a style call has failed on a missing theme file after an earlier call
\* styled the configuration and figsize changed it
C10_Witness ==
    /\ ret.op = "style" /\ ret.status = "raise" /\ ret.error = "IOError"
    /\ "axes.prop_cycle" \in DOMAIN rcParams
    /\ rcParams["figure.figsize"] = <<2000, 500>>

====
